---- MODULE Spec2Model ----
(***************************************************************************)
(* Model of the microblog backend:                                         *)
(*   - app/rate_limit.py : TokenBucket and RateLimitMiddleware.dispatch    *)
(*   - app/services/ranking.py : RankingService score functions and feeds  *)
(*   - app/services/posts.py, app/routers/posts.py : posts and timelines   *)
(*   - app/services/users.py, app/routers/users.py : follow and unfollow   *)
(*                                                                         *)
(* Numbers.  Python floats are modelled as exact fixed-point integers.     *)
(* Token quantities are counted in units of 1/TokenUnit token, time in     *)
(* whole seconds, a rate in token units per second.  Scores are counted    *)
(* in units of 1/ScoreUnit.                                                *)
(***************************************************************************)
EXTENDS Integers, Sequences, FiniteSets, Bags, TLC

\* ------------------------------------------------------------------------
\* Bounds of the model
\* ------------------------------------------------------------------------
TokenUnit == 2

MaxTicks == 1

MaxRequests == 3

MaxInFlight == 2

MaxPosts == 3

MaxSessions == 2

\* ------------------------------------------------------------------------
\* Program constants
\* ------------------------------------------------------------------------
\* app.add_middleware(RateLimitMiddleware, requests_per_second=10.0, burst=20)
AppRequestsPerSecond == 10

AppBurst == 20

\* stress test, TEST 1: burst_test(test_url, 30, delay=0.0)
BurstRequests == 30

HTTP_200_OK == 200

HTTP_429_TOO_MANY_REQUESTS == 429

\* a limiter that exempts the health checks but charges the root path
ExemptPathsNoRoot == {"/health", "/healthz"}

\* a limiter without the exemption
ExemptPathsNone == {}

\* if request.url.path in ["/health", "/healthz", "/"]
ExemptPaths == {"/health", "/healthz", "/"}

\* request paths the model draws from: the health checks, the root and one
\* API route
Paths == {"/health", "/healthz", "/", "/v1/posts"}

\* client addresses (request.client.host)
ClientIps == {"10.0.0.1", "10.0.0.2"}

Slots == 1..MaxInFlight

NoSlot == 0

\* resolution of a score: a score x in [0,1] is the integer x * ScoreUnit
ScoreUnit == 10000

\* resolution of a weight: tenths
WeightUnit == 10

\* calculate_recency_score: time thresholds, in seconds
HOUR == 3600

DAY == 86400

WEEK == 604800

\* user ids
Users == {"u1", "u2"}

\* the instant datetime.now(timezone.utc) returns during a scoring pass
NowUtc == 4 * WEEK

\* ages of the posts the model draws from, in seconds: the branch boundaries
\* of the recency score and points inside each branch
Ages ==
  {0, 600, HOUR - 1, HOUR, 12 * HOUR, DAY - 1, DAY, 2 * DAY, WEEK - 1, WEEK,
   10 * DAY, 2 * WEEK, 3 * WEEK}

\* contents of the posts the model draws from: a content is its length in
\* characters and the number of its characters with code point above 127
Contents ==
  {[len |-> l, high |-> h] :
     l \in {0, 20, 49, 50, 99, 100, 150, 200, 201, 280}, h \in {0, 1}}
    \ {[len |-> 0, high |-> 1]}

\* content: String(280)
MaxContentLength == 280

\* every content by length and by having a character above code point 127
AllContents ==
  {[len |-> l, high |-> h] : l \in 0..MaxContentLength, h \in {0, 1}}
    \ {[len |-> 0, high |-> 1]}

\* ages every ten minutes (600 s) from a post of the future to four weeks,
\* and the last second of each branch of the recency score
AgeGrid ==
  {k * 600 : k \in -1..((4 * WEEK) \div 600)}
    \cup {HOUR - 1, DAY - 1, WEEK - 1}

\* the posts the score functions are applied to one by one: every content
\* at age 0 and every age with the content of the feeds
FunctionPosts ==
  {[id |-> "post_1", author_id |-> "u2", content |-> c,
    created_at |-> NowUtc, author_followers |-> {}] : c \in AllContents}
  \cup
  {[id |-> "post_1", author_id |-> "u2",
    content |-> [len |-> 150, high |-> 0],
    created_at |-> NowUtc - age, author_followers |-> {}] : age \in AgeGrid}

\* the posts a scoring pass may be given
CandidatePosts ==
  {[id |-> "post_1", author_id |-> a, content |-> c,
    created_at |-> NowUtc - age, author_followers |-> {}] :
     a \in Users, c \in Contents, age \in Ages}

\* weights a caller may pass to calculate_urgency_score, in tenths
WeightValues == {-5, 0, 5, 10, 15}

\* the weights dicts the model draws from: those that sum to 1.0 and, as
\* dicts that break the convention, those that sum to 1.5
SuppliedWeights ==
  {w \in [recency : WeightValues, social : WeightValues,
          quality : WeightValues] :
     w.recency + w.social + w.quality \in {WeightUnit, WeightUnit + 5}}

\* status codes of the routes
HTTP_201_CREATED == 201

HTTP_403_FORBIDDEN == 403

HTTP_204_NO_CONTENT == 204

HTTP_400_BAD_REQUEST == 400

HTTP_404_NOT_FOUND == 404

HTTP_409_CONFLICT == 409

\* an exception that leaves the route: get_db rolls back and re-raises
HTTP_500_INTERNAL_SERVER_ERROR == 500

\* the user ids a follow or unfollow request may name: the users and an id
\* that no user has
TargetIds == Users \cup {"user_nonexistent"}

\* the requests on the follow routes that run at once, each in its own
\* database session
Sessions == 1..MaxSessions

\* post ids: create_post draws "post_" + uuid4(), the model an unused number
PostIds == 1..MaxPosts

\* the instants the database clock stands at while posts are created and
\* feeds are read, in seconds
Instants == {0, 2 * DAY}

\* the content of the posts of the feeds: 150 ASCII characters
FeedContent == [len |-> 150, high |-> 0]

\* get_for_you_feed: .limit(1000) on the candidate query
CandidateLimit == 1000

\* limit: int = 20 of the feed operations
DefaultLimit == 20

\* the limit, offset and min_score arguments the model draws from;
\* min_score is in units of 1/(ScoreUnit * WeightUnit)
Limits == {0, 2, DefaultLimit}

Offsets == {0, 1, 3}

MinScores == {0, 8 * ScoreUnit}

\* get_for_you_feed takes limit and offset as plain ints, so negative ones
\* too
SliceLimits == Limits \cup {-1}

SliceOffsets == Offsets \cup {-1}

\* the configurations RateLimitMiddleware.__init__ is given in the general
\* specification: 3 token units a second (1.5 requests a second when
\* TokenUnit = 2) with a burst of 2, and 1 token unit a second (0.5
\* requests a second) with a burst of 1
Configs ==
  { [requests_per_second |-> 3, burst |-> 2],
    [requests_per_second |-> 1, burst |-> 1] }

VARIABLES
  now,                  \* the value time.time() returns (seconds)
  real,                 \* seconds of real time elapsed since start
  requests_per_second,  \* RateLimitMiddleware.requests_per_second (units/s)
  burst,                \* RateLimitMiddleware.burst (tokens)
  buckets,              \* RateLimitMiddleware.buckets: client_ip -> TokenBucket
  slot,                 \* the dispatch coroutines suspended in call_next
  resp,                 \* the response dispatch returned last
  arrived,              \* number of requests that entered dispatch
  log,                  \* history: limiter decisions in the order taken
  trace,                \* history: per bucket, the last refill observed
  followers_tbl,        \* table followers: bag of <<follower_id, followed_id>>
  user,                 \* the viewer a scoring pass runs for
  user_following,       \* user.following as last refreshed (ids)
  post,                 \* the post loaded, with post.author.followers (ids)
  weights,              \* the weights argument: <<>> is None
  score,                \* the scores computed for post
  spc,                  \* position of the scoring pass
  posts,                \* table posts: set of rows
  clock,                \* the database clock and datetime.now (seconds)
  feed,                 \* the result the last feed operation returned
  freq,                 \* follow and unfollow requests under way, per session
  fres,                 \* the response a follow or unfollow request got last
  pres,                 \* the response a request on one post got last
  created               \* history: the ids of the posts in order of creation

rlVars == <<now, real, requests_per_second, burst, buckets, slot, resp,
            arrived, log, trace>>

scVars == <<followers_tbl, user, user_following, post, weights, score, spc>>

fdVars == <<posts, clock, feed>>

flVars == <<freq, fres>>

ppVars == <<pres, created>>

vars == <<rlVars, scVars, fdVars, flVars, ppVars>>

\* what a step of the limiter leaves alone, and what a step of a scoring
\* pass leaves alone
notLimiter == <<scVars, fdVars, flVars, ppVars>>

notScoring == <<rlVars, fdVars, flVars, ppVars>>

\* what a step on the posts and feeds leaves alone, the follow table apart
notFeed ==
  <<rlVars, user, user_following, post, weights, score, spc, flVars, ppVars>>

\* what a request on one post leaves alone, the posts and the follow table
\* apart
notPosts ==
  <<rlVars, user, user_following, post, weights, score, spc, flVars>>

\* what a step of a follow or unfollow request leaves alone, the follow
\* table apart
notFollow ==
  <<rlVars, user, user_following, post, weights, score, spc, fdVars, ppVars>>

\* ------------------------------------------------------------------------
\* Pure helpers
\* ------------------------------------------------------------------------
Min(a, b) == IF a <= b THEN a ELSE b

Max(a, b) == IF a >= b THEN a ELSE b

\* mathematical floor of a token quantity, in whole tokens
Floor(x) == x \div TokenUnit

\* Python int(x) on a float: truncation toward zero
PyInt(x) == IF x >= 0 THEN x \div TokenUnit ELSE -((-x) \div TokenUnit)

\* ------------------------------------------------------------------------
\* TokenBucket
\* ------------------------------------------------------------------------
\* TokenBucket.__init__(rate, max_tokens) at clock reading t
NewBucket(rate, max_tokens, t) ==
  [rate |-> rate,
   max_tokens |-> max_tokens * TokenUnit,
   tokens |-> max_tokens * TokenUnit,
   last_update |-> t]

\* the refill of TokenBucket.consume: tokens after line 50
Refill(b, t) == Min(b.max_tokens, b.tokens + (t - b.last_update) * b.rate)

\* consume that returns False before it stores the refilled tokens and the
\* instant read
ConsumeReturnEarly(b, n, t) ==
  LET filled == Refill(b, t)
      ok == filled >= n * TokenUnit
  IN [bucket |-> IF ok
                 THEN [b EXCEPT !.tokens = filled - n * TokenUnit,
                                !.last_update = t]
                 ELSE b,
      ok |-> ok]

\* consume with the test "tokens > n" in place of "tokens >= n"
ConsumeStrict(b, n, t) ==
  LET filled == Refill(b, t)
      ok == filled > n * TokenUnit
  IN [bucket |-> [b EXCEPT !.tokens = IF ok THEN filled - n * TokenUnit
                                            ELSE filled,
                           !.last_update = t],
      ok |-> ok]

\* TokenBucket.consume(n) at clock reading t: the bucket afterwards and the
\* returned boolean
Consume(b, n, t) ==
  LET filled == Refill(b, t)
      ok == filled >= n * TokenUnit
  IN [bucket |-> [b EXCEPT !.tokens = IF ok THEN filled - n * TokenUnit
                                            ELSE filled,
                           !.last_update = t],
      ok |-> ok]

\* a lookup that does not find the stored bucket: every request works on a
\* bucket of its own, as a read-modify-write race on the map would have it
LookupFresh(bs, ip, rate, max_tokens, t) == NewBucket(rate, max_tokens, t)

\* self.buckets[client_ip] on the defaultdict: the stored bucket, or a new
\* one made by the default factory
Lookup(bs, ip, rate, max_tokens, t) ==
  IF ip \in DOMAIN bs THEN bs[ip] ELSE NewBucket(rate, max_tokens, t)

\* ------------------------------------------------------------------------
\* RateLimitMiddleware.dispatch
\* ------------------------------------------------------------------------
IdleSlot ==
  [pc |-> "idle", client_ip |-> "", path |-> "", charged |-> FALSE,
   calls |-> 0, after |-> 0]

NoResponse ==
  [client_ip |-> "", path |-> "", charged |-> FALSE, calls |-> 0,
   after |-> 0, status |-> 0, headers |-> <<>>]

\* headers of the 429 JSONResponse
RejectHeaders(rps) ==
  [h \in {"Retry-After", "X-RateLimit-Limit", "X-RateLimit-Remaining"} |->
     CASE h = "Retry-After" -> 1
       [] h = "X-RateLimit-Limit" -> PyInt(rps)
       [] h = "X-RateLimit-Remaining" -> 0]

\* headers added to the handler's response after call_next returned
AdmitHeaders(rps, b) ==
  [h \in {"X-RateLimit-Limit", "X-RateLimit-Remaining"} |->
     CASE h = "X-RateLimit-Limit" -> PyInt(rps)
       [] h = "X-RateLimit-Remaining" -> PyInt(b.tokens)]

\* history kept for one bucket: number of consume calls, real time of the
\* last one, tokens before its refill, real seconds since the call before,
\* and what the refill added
Observe(tr, ip, b0, filled, t) ==
  LET old == IF ip \in DOMAIN tr
             THEN tr[ip]
             ELSE [calls |-> 0, at |-> t, x |-> 0, t |-> 0, gain |-> 0]
  IN (ip :> [calls |-> old.calls + 1,
             at |-> t,
             x |-> b0.tokens,
             t |-> t - old.at,
             gain |-> filled - b0.tokens]) @@ tr

\* dispatch from entry to its first await or, for a rejected request, to its
\* return: exempt paths go straight to call_next, the others take a token
\* from the caller's bucket.  s is the slot the coroutine is kept in while it
\* is suspended in call_next; with s = NoSlot the call can only be rejected.
Dispatch(s, ip, p) ==
  /\ s \in Slots => slot[s].pc = "idle"
  /\ arrived' = arrived + 1
  /\ IF p \in ExemptPaths
     THEN /\ s \in Slots
          /\ slot' = [slot EXCEPT ![s] =
                        [pc |-> "call_next", client_ip |-> ip, path |-> p,
                         charged |-> FALSE, calls |-> 1, after |-> 0]]
          /\ UNCHANGED <<buckets, log, trace, resp>>
     ELSE LET b0 == Lookup(buckets, ip, requests_per_second, burst, now)
              r == Consume(b0, 1, now)
          IN /\ buckets' = (ip :> r.bucket) @@ buckets
             /\ log' = Append(log,
                  [client_ip |-> ip, at |-> real, allowed |-> r.ok,
                   forwarded |-> IF r.ok THEN 1 ELSE 0,
                   status |-> IF r.ok THEN 0
                              ELSE HTTP_429_TOO_MANY_REQUESTS])
             /\ trace' = Observe(trace, ip, b0, Refill(b0, now), real)
             /\ IF r.ok
                THEN /\ s \in Slots
                     /\ slot' = [slot EXCEPT ![s] =
                          [pc |-> "call_next", client_ip |-> ip, path |-> p,
                           charged |-> TRUE, calls |-> 1,
                           after |-> r.bucket.tokens]]
                     /\ UNCHANGED resp
                ELSE /\ resp' = [client_ip |-> ip, path |-> p,
                                 charged |-> TRUE, calls |-> 0,
                                 after |-> r.bucket.tokens,
                                 status |-> HTTP_429_TOO_MANY_REQUESTS,
                                 headers |->
                                   RejectHeaders(requests_per_second)]
                     /\ UNCHANGED slot
  /\ UNCHANGED <<now, real, requests_per_second, burst>>

\* call_next has returned the handler's response: dispatch resumes, adds the
\* rate limit headers for a charged request and returns
Resume(s) ==
  /\ slot[s].pc = "call_next"
  /\ resp' = [client_ip |-> slot[s].client_ip, path |-> slot[s].path,
              charged |-> slot[s].charged, calls |-> slot[s].calls,
              after |-> slot[s].after,
              status |-> HTTP_200_OK,
              headers |-> IF slot[s].charged
                          THEN AdmitHeaders(requests_per_second,
                                            buckets[slot[s].client_ip])
                          ELSE <<>>]
  /\ slot' = [slot EXCEPT ![s] = IdleSlot]
  /\ UNCHANGED <<now, real, requests_per_second, burst, buckets, arrived,
                 log, trace>>

\* one second passes
Tick ==
  /\ real < MaxTicks
  /\ real' = real + 1
  /\ now' = now + 1
  /\ UNCHANGED <<requests_per_second, burst, buckets, slot, resp, arrived,
                 log, trace>>

\* the system clock behind time.time() is set backward
ClockSetBack ==
  /\ now > 0
  /\ \E t \in 0..(now - 1) : now' = t
  /\ UNCHANGED <<real, requests_per_second, burst, buckets, slot, resp,
                 arrived, log, trace>>

\* ------------------------------------------------------------------------
\* RankingService: the score functions
\* ------------------------------------------------------------------------
\* 2^(-d/7) for d = 0..7 whole days, in 1/10000
HalfTable == <<10000, 9057, 8203, 7430, 6730, 6095, 5520, 5000>>

RECURSIVE Halve(_, _)
Halve(v, k) == IF k = 0 THEN v ELSE Halve(v \div 2, k - 1)

\* ScoreUnit * 0.5 ** (d / WEEK) for d >= 0 seconds: exact at whole weeks,
\* from HalfTable at whole days, linear between two days
HalfPow(d) ==
  LET k == d \div WEEK
      rem == d % WEEK
      day == rem \div DAY
      frac == rem % DAY
      lo == (HalfTable[day + 1] * ScoreUnit) \div 10000
      hi == (HalfTable[day + 2] * ScoreUnit) \div 10000
  IN Halve(lo - ((lo - hi) * frac) \div DAY, k)

\* the recency score with the factor 0.3 of the last branch left out
calculate_recency_score_unscaled_decay(p, t) ==
  LET age_seconds == t - p.created_at
  IN IF age_seconds < HOUR
     THEN ScoreUnit
     ELSE IF age_seconds < DAY
     THEN ScoreUnit - (age_seconds * 3 * (ScoreUnit \div 10)) \div DAY
     ELSE IF age_seconds < WEEK
     THEN (7 * ScoreUnit) \div 10
            - ((age_seconds - DAY) * 4 * (ScoreUnit \div 10))
                \div (WEEK - DAY)
     ELSE Max(ScoreUnit \div 10, HalfPow(age_seconds - WEEK))

\* the recency score with the decay of the last branch counted from age 0
\* instead of from one week
calculate_recency_score_from_zero(p, t) ==
  LET age_seconds == t - p.created_at
  IN IF age_seconds < HOUR
     THEN ScoreUnit
     ELSE IF age_seconds < DAY
     THEN ScoreUnit - (age_seconds * 3 * (ScoreUnit \div 10)) \div DAY
     ELSE IF age_seconds < WEEK
     THEN (7 * ScoreUnit) \div 10
            - ((age_seconds - DAY) * 4 * (ScoreUnit \div 10))
                \div (WEEK - DAY)
     ELSE Max(ScoreUnit \div 10, (3 * HalfPow(age_seconds)) \div 10)

\* calculate_recency_score(post) at the instant t
calculate_recency_score(p, t) ==
  LET age_seconds == t - p.created_at
  IN IF age_seconds < HOUR
     THEN ScoreUnit
     ELSE IF age_seconds < DAY
     THEN ScoreUnit - (age_seconds * 3 * (ScoreUnit \div 10)) \div DAY
     ELSE IF age_seconds < WEEK
     THEN (7 * ScoreUnit) \div 10
            - ((age_seconds - DAY) * 4 * (ScoreUnit \div 10))
                \div (WEEK - DAY)
     ELSE Max(ScoreUnit \div 10, (3 * HalfPow(age_seconds - WEEK)) \div 10)

\* calculate_social_score(post, user): following is user.following,
\* post.author.followers is p.author_followers
calculate_social_score(p, u, following) ==
  LET is_following == \E followed \in following : followed = p.author_id
      is_mutual == \E follower \in p.author_followers : follower = u
  IN IF is_following
     THEN (IF is_mutual THEN ScoreUnit ELSE (8 * ScoreUnit) \div 10)
     ELSE (2 * ScoreUnit) \div 10

\* the quality score with content_length // 100 in the branch of the short
\* contents
calculate_content_quality_score_floor_division(p) ==
  LET content_length == p.content.len
      length_score ==
        IF 100 <= content_length /\ content_length <= 200
        THEN ScoreUnit
        ELSE IF content_length < 50
        THEN (5 * ScoreUnit) \div 10 + (content_length \div 100) * ScoreUnit
        ELSE IF content_length > 200
        THEN Min(ScoreUnit,
                 (9 * ScoreUnit) \div 10
                   + ((content_length - 200) * ScoreUnit) \div 800)
        ELSE (7 * ScoreUnit) \div 10
               + ((content_length - 50) * ScoreUnit) \div 167
      has_emoji == p.content.high > 0
      emoji_bonus == IF has_emoji THEN ScoreUnit \div 10 ELSE 0
  IN Min(ScoreUnit, length_score + emoji_bonus)

\* the quality score without the final clamp to 1.0
calculate_content_quality_score_unclamped(p) ==
  LET content_length == p.content.len
      length_score ==
        IF 100 <= content_length /\ content_length <= 200
        THEN ScoreUnit
        ELSE IF content_length < 50
        THEN (5 * ScoreUnit) \div 10 + (content_length * ScoreUnit) \div 100
        ELSE IF content_length > 200
        THEN Min(ScoreUnit,
                 (9 * ScoreUnit) \div 10
                   + ((content_length - 200) * ScoreUnit) \div 800)
        ELSE (7 * ScoreUnit) \div 10
               + ((content_length - 50) * ScoreUnit) \div 167
      has_emoji == p.content.high > 0
      emoji_bonus == IF has_emoji THEN ScoreUnit \div 10 ELSE 0
  IN length_score + emoji_bonus

\* calculate_content_quality_score(post)
calculate_content_quality_score(p) ==
  LET content_length == p.content.len
      length_score ==
        IF 100 <= content_length /\ content_length <= 200
        THEN ScoreUnit
        ELSE IF content_length < 50
        THEN (5 * ScoreUnit) \div 10 + (content_length * ScoreUnit) \div 100
        ELSE IF content_length > 200
        THEN Min(ScoreUnit,
                 (9 * ScoreUnit) \div 10
                   + ((content_length - 200) * ScoreUnit) \div 800)
        ELSE (7 * ScoreUnit) \div 10
               + ((content_length - 50) * ScoreUnit) \div 167
      has_emoji == p.content.high > 0
      emoji_bonus == IF has_emoji THEN ScoreUnit \div 10 ELSE 0
  IN Min(ScoreUnit, length_score + emoji_bonus)

\* default weights that leave recency out
DefaultWeightsNoRecency == [recency |-> 0, social |-> 5, quality |-> 5]

\* weights = {"recency": 0.5, "social": 0.3, "quality": 0.2}
DefaultWeights == [recency |-> 5, social |-> 3, quality |-> 2]

\* calculate_urgency_score(post, user, weights): the three scores and their
\* weighted sum, the sum in units of 1/(ScoreUnit * WeightUnit)
calculate_urgency_score(p, u, following, w, t) ==
  LET ws == IF w = <<>> THEN DefaultWeights ELSE w[1]
      recency_score == calculate_recency_score(p, t)
      social_score == calculate_social_score(p, u, following)
      quality_score == calculate_content_quality_score(p)
  IN [recency |-> recency_score,
      social |-> social_score,
      quality |-> quality_score,
      urgency |-> recency_score * ws.recency
                    + social_score * ws.social
                    + quality_score * ws.quality]

\* ------------------------------------------------------------------------
\* A scoring pass, as get_for_you_feed runs it for one candidate post, with
\* follow and unfollow requests of other sessions in between
\* ------------------------------------------------------------------------
\* the followers table read three ways: one row, user.following (ids) and
\* user.followers (ids)
Follows(a, b) == BagIn(<<a, b>>, followers_tbl)

FollowingOf(u) == {r[2] : r \in {x \in BagToSet(followers_tbl) : x[1] = u}}

FollowersOf(u) == {r[1] : r \in {x \in BagToSet(followers_tbl) : x[2] = u}}

\* a follower count taken over the wrong column of the followers table
follower_count_by_follower_id(u) ==
  BagCardinality([r \in {x \in BagToSet(followers_tbl) : x[1] = u} |->
                    followers_tbl[r]])

\* get_user_with_counts: select(func.count(followers.c.follower_id))
\* .where(followers.c.followed_id == user_id)
follower_count(u) ==
  BagCardinality([r \in {x \in BagToSet(followers_tbl) : x[2] = u} |->
                    followers_tbl[r]])

\* get_user_with_counts: select(func.count(followers.c.followed_id))
\* .where(followers.c.follower_id == user_id)
following_count(u) ==
  BagCardinality([r \in {x \in BagToSet(followers_tbl) : x[1] = u} |->
                    followers_tbl[r]])

NoPost ==
  [id |-> "", author_id |-> "", content |-> [len |-> 0, high |-> 0],
   created_at |-> 0, author_followers |-> {}]

NoScore == [recency |-> 0, social |-> 0, quality |-> 0, urgency |-> 0]

\* await db.refresh(user, ["following"])
RefreshFollowing ==
  /\ spc = "start"
  /\ user_following' = FollowingOf(user)
  /\ spc' = "refreshed"
  /\ UNCHANGED <<followers_tbl, user, post, weights, score>>

\* select(Post).options(selectinload(Post.author).selectinload(User.followers))
LoadPost(p) ==
  /\ spc = "refreshed"
  /\ post' = [p EXCEPT !.author_followers = FollowersOf(p.author_id)]
  /\ spc' = "loaded"
  /\ UNCHANGED <<followers_tbl, user, user_following, weights, score>>

\* RankingService.calculate_urgency_score(post, user, weights)
ScorePost(w) ==
  /\ spc = "loaded"
  /\ weights' = w
  /\ score' = calculate_urgency_score(post, user, user_following, w, NowUtc)
  /\ spc' = "scored"
  /\ UNCHANGED <<followers_tbl, user, user_following, post>>

\* the effect of POST /me/following/{user_id} by follower a for target b,
\* accepted
FollowUser(a, b) ==
  /\ a # b
  /\ ~Follows(a, b)
  /\ followers_tbl' = followers_tbl (+) SetToBag({<<a, b>>})
  /\ UNCHANGED <<user, user_following, post, weights, score, spc>>

\* the effect of DELETE /me/following/{user_id} by follower a for target b,
\* accepted
UnfollowUser(a, b) ==
  /\ Follows(a, b)
  /\ followers_tbl' = followers_tbl (-) SetToBag({<<a, b>>})
  /\ UNCHANGED <<user, user_following, post, weights, score, spc>>

\* ------------------------------------------------------------------------
\* Specifications
\* ------------------------------------------------------------------------
InitLimiter(cfg) ==
  /\ now = 0
  /\ real = 0
  /\ requests_per_second = cfg.requests_per_second
  /\ burst = cfg.burst
  /\ buckets = <<>>
  /\ slot = [s \in Slots |-> IdleSlot]
  /\ resp = NoResponse
  /\ arrived = 0
  /\ log = <<>>
  /\ trace = <<>>

\* a session that runs no request, and the response before any request
IdleSession == [pc |-> "idle", op |-> "", user |-> "", target |-> ""]

NoFollowResponse == [op |-> "", user |-> "", target |-> "", status |-> 0]

\* no follow or unfollow request under way or answered
FollowIdle ==
  /\ freq = [s \in Sessions |-> IdleSession]
  /\ fres = NoFollowResponse

\* no feed operation has returned yet
NoFeed ==
  [op |-> "", user |-> "", limit |-> 0, offset |-> 0, min_score |-> 0,
   page |-> <<>>, scores |-> <<>>, total |-> 0]

\* no post stored, no feed read
FeedIdle ==
  /\ posts = {}
  /\ clock = 0
  /\ feed = NoFeed

\* the response before any request on a post
NoPostResponse == [op |-> "", user |-> "", id |-> 0, status |-> 0]

\* no request on a post answered, no post created
PostsIdle ==
  /\ pres = NoPostResponse
  /\ created = <<>>

\* no scoring pass
ScoreIdle ==
  /\ followers_tbl = EmptyBag
  /\ user = "u1"
  /\ user_following = {}
  /\ post = NoPost
  /\ weights = <<>>
  /\ score = NoScore
  /\ spc = "idle"

Init ==
  /\ \E cfg \in Configs : InitLimiter(cfg)
  /\ ScoreIdle
  /\ FeedIdle
  /\ FollowIdle
  /\ PostsIdle

\* the lowest slot that holds no suspended coroutine, or NoSlot when every
\* slot holds one
FreeSlot(s) ==
  IF s = NoSlot
  THEN \A u \in Slots : slot[u].pc = "call_next"
  ELSE /\ slot[s].pc = "idle"
       /\ \A u \in Slots : u < s => slot[u].pc = "call_next"

Arrive ==
  /\ \E s \in Slots \cup {NoSlot}, ip \in ClientIps, p \in Paths :
       arrived < MaxRequests /\ FreeSlot(s) /\ Dispatch(s, ip, p)
  /\ UNCHANGED notLimiter

Return == (\E s \in Slots : Resume(s)) /\ UNCHANGED notLimiter

SecondPasses == Tick /\ UNCHANGED notLimiter

ClockAdjusted == ClockSetBack /\ UNCHANGED notLimiter

Next == Arrive \/ Return \/ SecondPasses \/ ClockAdjusted

Spec == Init /\ [][Next]_vars

\* The stress test's first scenario against the application's limiter
\* (requests_per_second=10.0, burst=20): one client, 30 requests to a charged
\* route, the clock standing still.
InitBurst ==
  /\ InitLimiter([requests_per_second |-> AppRequestsPerSecond * TokenUnit,
                  burst |-> AppBurst])
  /\ ScoreIdle
  /\ FeedIdle
  /\ FollowIdle
  /\ PostsIdle

ArriveBurst ==
  /\ \E s \in Slots \cup {NoSlot} :
       arrived < BurstRequests /\ FreeSlot(s)
         /\ Dispatch(s, "10.0.0.1", "/v1/posts")
  /\ UNCHANGED notLimiter

NextBurst == ArriveBurst \/ Return

SpecBurst == InitBurst /\ [][NextBurst]_vars

\* Scoring passes over every follow table without self-follows, viewer,
\* candidate post and weights argument; the limiter stands still.
FollowPairs == {r \in Users \X Users : r[1] # r[2]}

InitScore ==
  /\ InitLimiter([requests_per_second |-> AppRequestsPerSecond * TokenUnit,
                  burst |-> AppBurst])
  /\ followers_tbl \in {SetToBag(t) : t \in SUBSET FollowPairs}
  /\ user \in Users
  /\ user_following = {}
  /\ post = NoPost
  /\ weights = <<>>
  /\ score = NoScore
  /\ spc = "start"
  /\ FeedIdle
  /\ FollowIdle
  /\ PostsIdle

Refresh == RefreshFollowing /\ UNCHANGED notScoring

Load == (\E p \in CandidatePosts : LoadPost(p)) /\ UNCHANGED notScoring

Rank ==
  /\ \E w \in {<<>>} \cup {<<x>> : x \in SuppliedWeights} : ScorePost(w)
  /\ UNCHANGED notScoring

\* requests of other sessions change the follow table until the pass has
\* read it for the last time
Follow ==
  /\ spc \in {"start", "refreshed"}
  /\ \E a \in Users, b \in Users : FollowUser(a, b)
  /\ UNCHANGED notScoring

Unfollow ==
  /\ spc \in {"start", "refreshed"}
  /\ \E a \in Users, b \in Users : UnfollowUser(a, b)
  /\ UNCHANGED notScoring

NextScore == Refresh \/ Load \/ Rank \/ Follow \/ Unfollow

SpecScore == InitScore /\ [][NextScore]_vars

\* The score functions applied to one loaded post of a stranger: every
\* content length, every age of the grid, every weights argument.
InitRank ==
  /\ InitLimiter([requests_per_second |-> AppRequestsPerSecond * TokenUnit,
                  burst |-> AppBurst])
  /\ followers_tbl = EmptyBag
  /\ user = "u1"
  /\ user_following = {}
  /\ post \in FunctionPosts
  /\ weights = <<>>
  /\ score = NoScore
  /\ spc = "loaded"
  /\ FeedIdle
  /\ FollowIdle
  /\ PostsIdle

NextRank == Rank

SpecRank == InitRank /\ [][NextRank]_vars

\* ------------------------------------------------------------------------
\* Posts and feeds: PostService, the posts router and the feed operations of
\* RankingService.  A feed operation reads the tables as one snapshot.
\* ------------------------------------------------------------------------
\* ORDER BY created_at DESC, id DESC: a total order on rows
RowBefore(a, b) ==
  \/ a.created_at > b.created_at
  \/ a.created_at = b.created_at /\ a.id > b.id

\* the result of SELECT ... ORDER BY created_at DESC, id DESC over rows S
RECURSIVE OrderByCreatedAtId(_)
OrderByCreatedAtId(S) ==
  IF S = {}
  THEN <<>>
  ELSE LET first == CHOOSE r \in S : \A x \in S \ {r} : RowBefore(r, x)
       IN <<first>> \o OrderByCreatedAtId(S \ {first})

\* the results SELECT ... ORDER BY created_at DESC over rows S may have: the
\* database orders rows of equal created_at as it likes
RECURSIVE OrderByCreatedAt(_)
OrderByCreatedAt(S) ==
  IF S = {}
  THEN {<<>>}
  ELSE UNION {{<<first>> \o q : q \in OrderByCreatedAt(S \ {first})} :
                first \in {r \in S :
                             \A x \in S : r.created_at >= x.created_at}}

\* an offset that counts rows from 1
LimitOffsetFromOne(q, l, o) == SubSeq(q, Max(1, o), Min(Len(q), o + l))

\* .limit(l).offset(o) on a result, for l >= 0 and o >= 0
LimitOffset(q, l, o) == SubSeq(q, o + 1, Min(Len(q), o + l))

\* q[a:b] of a Python list
PyIndex(i, n) == IF i < 0 THEN Max(0, i + n) ELSE Min(i, n)

\* a slice that takes the element at its end index too
PySliceInclusive(q, a, b) ==
  SubSeq(q, PyIndex(a, Len(q)) + 1, PyIndex(b + 1, Len(q)))

PySlice(q, a, b) == SubSeq(q, PyIndex(a, Len(q)) + 1, PyIndex(b, Len(q)))

\* list.sort(key=lambda x: x[1], reverse=True): by score descending, entries
\* of equal score in the order they had in the list
RECURSIVE SortByScoreDesc(_)
SortByScoreDesc(q) ==
  IF q = <<>>
  THEN <<>>
  ELSE LET i == CHOOSE k \in DOMAIN q :
                  /\ \A j \in DOMAIN q : q[j].score <= q[k].score
                  /\ \A j \in DOMAIN q : j < k => q[j].score < q[k].score
       IN <<q[i]>>
            \o SortByScoreDesc(SubSeq(q, 1, i - 1)
                                 \o SubSeq(q, i + 1, Len(q)))

\* PostService.create_post / POST /v1/posts by author a with content c: the
\* row gets a fresh id and the database clock as created_at
create_post(a, id, c) ==
  /\ \A r \in posts : r.id # id
  /\ posts' = posts \cup {[id |-> id, author_id |-> a,
                           content |-> c, created_at |-> clock]}
  /\ UNCHANGED <<clock, feed, followers_tbl>>

\* DELETE /v1/posts/{post_id} by user u, accepted: the post exists and u is
\* its author
delete_post(u, id) ==
  /\ \E r \in posts : r.id = id /\ r.author_id = u
  /\ posts' = {r \in posts : r.id # id}
  /\ UNCHANGED <<clock, feed, followers_tbl>>

\* time passes
AdvanceClock ==
  /\ \E t \in Instants : t > clock /\ clock' = t
  /\ UNCHANGED <<posts, feed, followers_tbl>>

\* the global feed with the page's length as total
get_global_feed_page_total(l, o) ==
  /\ feed' = [op |-> "global", user |-> "", limit |-> l, offset |-> o,
              min_score |-> 0,
              page |-> LimitOffset(OrderByCreatedAtId(posts), l, o),
              scores |-> <<>>,
              total |-> Len(LimitOffset(OrderByCreatedAtId(posts), l, o))]
  /\ UNCHANGED <<posts, clock, followers_tbl>>

\* RankingService.get_global_feed(db, limit, offset)
get_global_feed(l, o) ==
  /\ feed' = [op |-> "global", user |-> "", limit |-> l, offset |-> o,
              min_score |-> 0,
              page |-> LimitOffset(OrderByCreatedAtId(posts), l, o),
              scores |-> <<>>,
              total |-> Cardinality(posts)]
  /\ UNCHANGED <<posts, clock, followers_tbl>>

\* the timeline without following_ids.append(user.id)
get_timeline_without_self(u, l, o) ==
  LET following_ids == FollowingOf(u)
      rows == {r \in posts : r.author_id \in following_ids}
  IN /\ feed' = [op |-> "timeline", user |-> u, limit |-> l, offset |-> o,
                 min_score |-> 0,
                 page |-> LimitOffset(OrderByCreatedAtId(rows), l, o),
                 scores |-> <<>>,
                 total |-> Cardinality(rows)]
     /\ UNCHANGED <<posts, clock, followers_tbl>>

\* PostService.get_timeline(db, user, limit, offset)
get_timeline(u, l, o) ==
  LET following_ids == FollowingOf(u) \cup {u}
      rows == {r \in posts : r.author_id \in following_ids}
  IN /\ feed' = [op |-> "timeline", user |-> u, limit |-> l, offset |-> o,
                 min_score |-> 0,
                 page |-> LimitOffset(OrderByCreatedAtId(rows), l, o),
                 scores |-> <<>>,
                 total |-> Cardinality(rows)]
     /\ UNCHANGED <<posts, clock, followers_tbl>>

\* current_user.following as the CurrentUser dependency provides it
CurrentUserFollowing(u) == FollowingOf(u)

\* GET /v1/posts (routers/posts.get_timeline): the page query is ordered by
\* created_at only
posts_get_timeline(u, l, o) ==
  LET following_ids == CurrentUserFollowing(u) \cup {u}
      rows == {r \in posts : r.author_id \in following_ids}
  IN /\ \E q \in OrderByCreatedAt(rows) :
          feed' = [op |-> "timeline_route", user |-> u, limit |-> l,
                   offset |-> o, min_score |-> 0,
                   page |-> LimitOffset(q, l, o),
                   scores |-> <<>>,
                   total |-> Cardinality(rows)]
     /\ UNCHANGED <<posts, clock, followers_tbl>>

\* .options(selectinload(Post.author).selectinload(User.followers)): the row
\* with post.author.followers (ids)
WithAuthor(r) ==
  [id |-> r.id, author_id |-> r.author_id, content |-> r.content,
   created_at |-> r.created_at,
   author_followers |-> FollowersOf(r.author_id)]

\* the for-you feed without the min_score filter
get_for_you_feed_unfiltered(u, l, o, ms) ==
  LET following == FollowingOf(u)
  IN /\ \E q \in OrderByCreatedAt(posts) :
          LET all_posts == LimitOffset(q, CandidateLimit, 0)
              scored_posts ==
                [i \in DOMAIN all_posts |->
                   [post |-> all_posts[i],
                    score |-> calculate_urgency_score(
                                WithAuthor(all_posts[i]), u, following,
                                <<>>, clock).urgency]]
              sorted == SortByScoreDesc(scored_posts)
              paginated == PySlice(sorted, o, o + l)
          IN feed' = [op |-> "for_you", user |-> u, limit |-> l,
                      offset |-> o, min_score |-> ms,
                      page |-> [i \in DOMAIN paginated |-> paginated[i].post],
                      scores |->
                        [i \in DOMAIN paginated |-> paginated[i].score],
                      total |-> Len(sorted)]
     /\ UNCHANGED <<posts, clock, followers_tbl>>

\* RankingService.get_for_you_feed(db, user, limit, offset, min_score)
get_for_you_feed(u, l, o, ms) ==
  LET following == FollowingOf(u)
  IN /\ \E q \in OrderByCreatedAt(posts) :
          LET all_posts == LimitOffset(q, CandidateLimit, 0)
              scored_posts ==
                [i \in DOMAIN all_posts |->
                   [post |-> all_posts[i],
                    score |-> calculate_urgency_score(
                                WithAuthor(all_posts[i]), u, following,
                                <<>>, clock).urgency]]
              kept == SelectSeq(scored_posts, LAMBDA x : x.score >= ms)
              sorted == SortByScoreDesc(kept)
              paginated == PySlice(sorted, o, o + l)
          IN feed' = [op |-> "for_you", user |-> u, limit |-> l,
                      offset |-> o, min_score |-> ms,
                      page |-> [i \in DOMAIN paginated |-> paginated[i].post],
                      scores |->
                        [i \in DOMAIN paginated |-> paginated[i].score],
                      total |-> Len(sorted)]
     /\ UNCHANGED <<posts, clock, followers_tbl>>

\* Posts are created and deleted, users follow and unfollow, the clock moves
\* and a feed is read; the limiter and the scoring pass stand still.
InitFeed ==
  /\ InitLimiter([requests_per_second |-> AppRequestsPerSecond * TokenUnit,
                  burst |-> AppBurst])
  /\ ScoreIdle
  /\ FeedIdle
  /\ FollowIdle
  /\ PostsIdle

\* A feed operation changes no table, so each read sees what any read in its
\* place would see: a behaviour changes the tables, then reads one feed.
CreatePost ==
  /\ feed = NoFeed
  /\ \E a \in Users, id \in PostIds : create_post(a, id, FeedContent)
  /\ UNCHANGED notFeed

DeletePost ==
  /\ feed = NoFeed
  /\ \E u \in Users, id \in PostIds : delete_post(u, id)
  /\ UNCHANGED notFeed

TimePasses == feed = NoFeed /\ AdvanceClock /\ UNCHANGED notFeed

FollowAccepted ==
  /\ feed = NoFeed
  /\ \E a \in Users, b \in Users : FollowUser(a, b)
  /\ UNCHANGED <<rlVars, fdVars, flVars, ppVars>>

UnfollowAccepted ==
  /\ feed = NoFeed
  /\ \E a \in Users, b \in Users : UnfollowUser(a, b)
  /\ UNCHANGED <<rlVars, fdVars, flVars, ppVars>>

GlobalFeed ==
  /\ feed = NoFeed
  /\ \E l \in Limits, o \in Offsets : get_global_feed(l, o)
  /\ UNCHANGED notFeed

Timeline ==
  /\ feed = NoFeed
  /\ \E u \in Users, l \in Limits, o \in Offsets : get_timeline(u, l, o)
  /\ UNCHANGED notFeed

\* the route takes limit from 1 to 100 and offset from 0
TimelineRoute ==
  /\ feed = NoFeed
  /\ \E u \in Users, l \in Limits \ {0}, o \in Offsets :
       posts_get_timeline(u, l, o)
  /\ UNCHANGED notFeed

ForYouFeed ==
  /\ feed = NoFeed
  /\ \E u \in Users, l \in SliceLimits, o \in SliceOffsets, ms \in MinScores :
       get_for_you_feed(u, l, o, ms)
  /\ UNCHANGED notFeed

NextFeed ==
  \/ CreatePost \/ DeletePost \/ TimePasses \/ FollowAccepted \/ UnfollowAccepted
  \/ GlobalFeed \/ Timeline \/ TimelineRoute \/ ForYouFeed

SpecFeed == InitFeed /\ [][NextFeed]_vars

\* ------------------------------------------------------------------------
\* The routes on one post (routers/posts.py): create, get, delete; and the
\* posts of one user (PostService.get_user_posts and its route)
\* ------------------------------------------------------------------------
Range(q) == {q[i] : i \in DOMAIN q}

PostResponse(op, u, id, st) == [op |-> op, user |-> u, id |-> id, status |-> st]

\* POST /v1/posts by current_user a: id is "post_" + uuid4(), which no
\* earlier post had
posts_create_post(a, id, c) ==
  /\ id \notin Range(created)
  /\ create_post(a, id, c)
  /\ created' = Append(created, id)
  /\ pres' = PostResponse("create", a, id, HTTP_201_CREATED)

\* the delete route without the test on the author
posts_delete_post_by_anyone(u, id) ==
  /\ IF ~(\E r \in posts : r.id = id)
     THEN /\ pres' = PostResponse("delete", u, id, HTTP_404_NOT_FOUND)
          /\ UNCHANGED <<posts, clock, feed, followers_tbl>>
     ELSE /\ posts' = {r \in posts : r.id # id}
          /\ pres' = PostResponse("delete", u, id, HTTP_204_NO_CONTENT)
          /\ UNCHANGED <<clock, feed, followers_tbl>>
  /\ UNCHANGED created

\* DELETE /v1/posts/{post_id} by current_user u
posts_delete_post(u, id) ==
  /\ IF ~(\E r \in posts : r.id = id)
     THEN /\ pres' = PostResponse("delete", u, id, HTTP_404_NOT_FOUND)
          /\ UNCHANGED <<posts, clock, feed, followers_tbl>>
     ELSE IF \E r \in posts : r.id = id /\ r.author_id # u
     THEN /\ pres' = PostResponse("delete", u, id, HTTP_403_FORBIDDEN)
          /\ UNCHANGED <<posts, clock, feed, followers_tbl>>
     ELSE /\ delete_post(u, id)
          /\ pres' = PostResponse("delete", u, id, HTTP_204_NO_CONTENT)
  /\ UNCHANGED created

\* GET /v1/posts/{post_id}
posts_get_post(id) ==
  /\ pres' = PostResponse("get", "", id,
                          IF \E r \in posts : r.id = id
                          THEN HTTP_200_OK
                          ELSE HTTP_404_NOT_FOUND)
  /\ UNCHANGED <<posts, clock, feed, followers_tbl, created>>

\* the contents of the posts whose listing is read: "Post 1" and "Post 2",
\* rank being the place of the text in the database's collation
PostContents == {[len |-> 6, high |-> 0, rank |-> k] : k \in {1, 2}}

\* the results SELECT ... ORDER BY created_at DESC, content DESC over rows S
\* may have: rows equal in both come as the database likes
RECURSIVE OrderByCreatedAtContent(_)
OrderByCreatedAtContent(S) ==
  IF S = {}
  THEN {<<>>}
  ELSE UNION {{<<first>> \o q : q \in OrderByCreatedAtContent(S \ {first})} :
                first \in {r \in S :
                             \A x \in S :
                               \/ r.created_at > x.created_at
                               \/ /\ r.created_at = x.created_at
                                  /\ r.content.rank >= x.content.rank}}

\* PostService.get_user_posts(db, user_id, limit, offset)
get_user_posts(a, l, o) ==
  LET rows == {r \in posts : r.author_id = a}
  IN /\ \E q \in OrderByCreatedAtContent(rows) :
          feed' = [op |-> "user_posts", user |-> a, limit |-> l,
                   offset |-> o, min_score |-> 0,
                   page |-> LimitOffset(q, l, o),
                   scores |-> <<>>,
                   total |-> Cardinality(rows)]
     /\ UNCHANGED <<posts, clock, followers_tbl>>

\* GET /v1/posts/user/{user_id}: 404 for an id no user has; the page query
\* is ordered by created_at only
posts_get_user_posts(a, l, o) ==
  LET rows == {r \in posts : r.author_id = a}
  IN /\ IF a \notin Users
        THEN /\ pres' = PostResponse("user_posts", a, 0, HTTP_404_NOT_FOUND)
             /\ UNCHANGED feed
        ELSE /\ \E q \in OrderByCreatedAt(rows) :
                  feed' = [op |-> "user_posts_route", user |-> a,
                           limit |-> l, offset |-> o, min_score |-> 0,
                           page |-> LimitOffset(q, l, o),
                           scores |-> <<>>,
                           total |-> Cardinality(rows)]
             /\ UNCHANGED pres
     /\ UNCHANGED <<posts, clock, followers_tbl, created>>

\* Posts are created, fetched and deleted by every user; the rest stands
\* still.
InitDelete ==
  /\ InitLimiter([requests_per_second |-> AppRequestsPerSecond * TokenUnit,
                  burst |-> AppBurst])
  /\ ScoreIdle
  /\ FeedIdle
  /\ FollowIdle
  /\ PostsIdle

PostCreated ==
  /\ \E a \in Users, id \in PostIds : posts_create_post(a, id, FeedContent)
  /\ UNCHANGED notPosts

PostDeleted ==
  /\ \E u \in Users, id \in PostIds : posts_delete_post(u, id)
  /\ UNCHANGED notPosts

PostFetched == (\E id \in PostIds : posts_get_post(id)) /\ UNCHANGED notPosts

NextDelete == PostCreated \/ PostDeleted \/ PostFetched

SpecDelete == InitDelete /\ [][NextDelete]_vars

\* Posts of differing contents are created while the clock moves or stands,
\* then the posts of one user are listed.
InitUserPosts ==
  /\ InitLimiter([requests_per_second |-> AppRequestsPerSecond * TokenUnit,
                  burst |-> AppBurst])
  /\ ScoreIdle
  /\ FeedIdle
  /\ FollowIdle
  /\ PostsIdle

PostWritten ==
  /\ feed = NoFeed
  /\ \E a \in Users, id \in PostIds, c \in PostContents :
       posts_create_post(a, id, c)
  /\ UNCHANGED notPosts

UserPosts ==
  /\ feed = NoFeed
  /\ \E a \in Users, l \in Limits, o \in Offsets : get_user_posts(a, l, o)
  /\ UNCHANGED notFeed

\* the route takes limit from 1 to 100 and offset from 0
UserPostsRoute ==
  /\ feed = NoFeed
  /\ \E a \in TargetIds, l \in Limits \ {0}, o \in Offsets :
       posts_get_user_posts(a, l, o)
  /\ UNCHANGED notPosts

NextUserPosts == PostWritten \/ TimePasses \/ UserPosts \/ UserPostsRoute

SpecUserPosts == InitUserPosts /\ [][NextUserPosts]_vars

\* ------------------------------------------------------------------------
\* The follow and unfollow routes (routers/users.py) with the service calls
\* they make (UserService).  A request runs in its own session; requests of
\* other sessions run between its statements.
\* ------------------------------------------------------------------------
FollowResponse(op, u, id, st) ==
  [op |-> op, user |-> u, target |-> id, status |-> st]

\* POST /v1/users/me/following/{user_id} by current_user u, up to the call
\* of UserService.follow_user
follow_user(s, u, id) ==
  /\ freq[s].pc = "idle"
  /\ IF u = id
     THEN /\ fres' = FollowResponse("follow", u, id, HTTP_400_BAD_REQUEST)
          /\ UNCHANGED freq
     ELSE IF id \notin Users
     THEN /\ fres' = FollowResponse("follow", u, id, HTTP_404_NOT_FOUND)
          /\ UNCHANGED freq
     ELSE IF id \in FollowingOf(u)
     THEN /\ fres' = FollowResponse("follow", u, id, HTTP_409_CONFLICT)
          /\ UNCHANGED freq
     ELSE /\ freq' = [freq EXCEPT ![s] =
                        [pc |-> "service", op |-> "follow", user |-> u,
                         target |-> id]]
          /\ UNCHANGED fres
  /\ UNCHANGED followers_tbl

\* DELETE /v1/users/me/following/{user_id} by current_user u, up to the call
\* of UserService.unfollow_user
unfollow_user(s, u, id) ==
  /\ freq[s].pc = "idle"
  /\ IF id \notin Users
     THEN /\ fres' = FollowResponse("unfollow", u, id, HTTP_404_NOT_FOUND)
          /\ UNCHANGED freq
     ELSE IF id \notin FollowingOf(u)
     THEN /\ fres' = FollowResponse("unfollow", u, id, HTTP_404_NOT_FOUND)
          /\ UNCHANGED freq
     ELSE /\ freq' = [freq EXCEPT ![s] =
                        [pc |-> "service", op |-> "unfollow", user |-> u,
                         target |-> id]]
          /\ UNCHANGED fres
  /\ UNCHANGED followers_tbl

\* UserService.follow_user and UserService.unfollow_user up to the flush:
\* following is refreshed, and the collection is changed only if the target
\* is not in it (follow) or is in it (unfollow); with nothing to change the
\* route returns 204
service_refresh(s) ==
  LET r == freq[s]
      change == IF r.op = "follow"
                THEN r.target \notin FollowingOf(r.user)
                ELSE r.target \in FollowingOf(r.user)
  IN /\ r.pc = "service"
     /\ IF change
        THEN /\ freq' = [freq EXCEPT ![s].pc = "flush"]
             /\ UNCHANGED fres
        ELSE /\ freq' = [freq EXCEPT ![s] = IdleSession]
             /\ fres' = FollowResponse(r.op, r.user, r.target,
                                       HTTP_204_NO_CONTENT)
     /\ UNCHANGED followers_tbl

\* the flush without the primary key on the followers table
service_flush_without_key(s) ==
  LET r == freq[s]
      row == SetToBag({<<r.user, r.target>>})
  IN /\ r.pc = "flush"
     /\ freq' = [freq EXCEPT ![s] = IdleSession]
     /\ IF r.op = "follow"
        THEN /\ followers_tbl' = followers_tbl (+) row
             /\ fres' = FollowResponse(r.op, r.user, r.target,
                                       HTTP_204_NO_CONTENT)
        ELSE IF ~Follows(r.user, r.target)
        THEN /\ fres' = FollowResponse(r.op, r.user, r.target,
                                       HTTP_500_INTERNAL_SERVER_ERROR)
             /\ UNCHANGED followers_tbl
        ELSE /\ followers_tbl' = followers_tbl (-) row
             /\ fres' = FollowResponse(r.op, r.user, r.target,
                                       HTTP_204_NO_CONTENT)

\* await db.flush() of the two service methods and the return of the route:
\* the INSERT fails on the primary key (follower_id, followed_id) when the
\* row is there by now, the DELETE fails when the row is gone by now; the
\* exception leaves the route and the session is rolled back
service_flush(s) ==
  LET r == freq[s]
      row == SetToBag({<<r.user, r.target>>})
  IN /\ r.pc = "flush"
     /\ freq' = [freq EXCEPT ![s] = IdleSession]
     /\ IF r.op = "follow"
        THEN IF Follows(r.user, r.target)
             THEN /\ fres' = FollowResponse(r.op, r.user, r.target,
                                            HTTP_500_INTERNAL_SERVER_ERROR)
                  /\ UNCHANGED followers_tbl
             ELSE /\ followers_tbl' = followers_tbl (+) row
                  /\ fres' = FollowResponse(r.op, r.user, r.target,
                                            HTTP_204_NO_CONTENT)
        ELSE IF ~Follows(r.user, r.target)
        THEN /\ fres' = FollowResponse(r.op, r.user, r.target,
                                       HTTP_500_INTERNAL_SERVER_ERROR)
             /\ UNCHANGED followers_tbl
        ELSE /\ followers_tbl' = followers_tbl (-) row
             /\ fres' = FollowResponse(r.op, r.user, r.target,
                                       HTTP_204_NO_CONTENT)

\* Follow and unfollow requests of every user for every id, in concurrent
\* sessions, from an empty follow table; the rest stands still.
InitFollow ==
  /\ InitLimiter([requests_per_second |-> AppRequestsPerSecond * TokenUnit,
                  burst |-> AppBurst])
  /\ ScoreIdle
  /\ FeedIdle
  /\ FollowIdle
  /\ PostsIdle

FollowRequest ==
  /\ \E s \in Sessions, u \in Users, id \in TargetIds : follow_user(s, u, id)
  /\ UNCHANGED notFollow

UnfollowRequest ==
  /\ \E s \in Sessions, u \in Users, id \in TargetIds :
       unfollow_user(s, u, id)
  /\ UNCHANGED notFollow

ServiceRefresh == (\E s \in Sessions : service_refresh(s)) /\ UNCHANGED notFollow

ServiceFlush == (\E s \in Sessions : service_flush(s)) /\ UNCHANGED notFollow

NextFollow ==
  FollowRequest \/ UnfollowRequest \/ ServiceRefresh \/ ServiceFlush

SpecFollow == InitFollow /\ [][NextFollow]_vars

\* ------------------------------------------------------------------------
\* Properties of the rate limiter
\* ------------------------------------------------------------------------
\* the paths the limiter is to let through uncharged
HealthPaths == {"/health", "/healthz", "/"}

\* requests decided so far for one client, admitted, within real seconds
\* t1..t2
AdmittedIn(ip, t1, t2) ==
  Cardinality({i \in DOMAIN log :
                 /\ log[i].client_ip = ip
                 /\ log[i].allowed
                 /\ t1 <= log[i].at
                 /\ log[i].at <= t2})

\* C1: after every consume call on every bucket, 0 <= tokens <= max_tokens.
\* Checked as an invariant it is violated: time.time() is the wall clock,
\* and a consume call after the clock was set backward computes a negative
\* elapsed time and drives tokens below zero.
C1_TokensBounded ==
  \A ip \in DOMAIN buckets :
    /\ 0 <= buckets[ip].tokens
    /\ buckets[ip].tokens <= buckets[ip].max_tokens

\* C2: with burst=20 and requests_per_second=10, of 30 charged requests of
\* one new client on a standing clock the first 20 to reach the limiter are
\* admitted and forwarded to the handler and the last 10 are rejected with
\* 429: exactly 20 admitted and 10 rejected.
C2_BurstOfThirty ==
  /\ \A i \in DOMAIN log :
       IF i <= 20
       THEN /\ log[i].allowed
            /\ log[i].forwarded = 1
            /\ log[i].status # HTTP_429_TOO_MANY_REQUESTS
       ELSE /\ ~log[i].allowed
            /\ log[i].forwarded = 0
            /\ log[i].status = HTTP_429_TOO_MANY_REQUESTS
  /\ resp.status = HTTP_429_TOO_MANY_REQUESTS <=> (resp.charged /\ resp.calls = 0)
  /\ arrived = BurstRequests =>
       /\ Len(log) = 30
       /\ Cardinality({i \in DOMAIN log : log[i].allowed}) = 20
       /\ Cardinality({i \in DOMAIN log : ~log[i].allowed}) = 10

\* all 30 requests have been decided, the 30th got its 429 while an admitted
\* one is still with its handler
C2_Witness ==
  /\ arrived = BurstRequests
  /\ ~log[BurstRequests].allowed
  /\ resp.status = HTTP_429_TOO_MANY_REQUESTS
  /\ \E s \in Slots : slot[s].pc = "call_next" /\ slot[s].calls = 1

\* C3: whatever the interleaving of the dispatch coroutines, no token is
\* spent twice: for every client and every interval t1..t2 of real seconds
\* the admitted requests number at most burst + requests_per_second * (t2-t1).
C3_NoTokenSpentTwice ==
  \A ip \in ClientIps :
    \A t1 \in 0..real :
      \A t2 \in t1..real :
        AdmittedIn(ip, t1, t2) * TokenUnit
          <= burst * TokenUnit + requests_per_second * (t2 - t1)

\* two requests of one client, admitted in the same second, are suspended
\* in call_next at once; they have used the whole burst and the client's
\* next request, the last one decided, was rejected
C3_Witness ==
  \E s \in Slots, u \in Slots :
    /\ s # u
    /\ slot[s].pc = "call_next" /\ slot[s].charged
    /\ slot[u].pc = "call_next" /\ slot[u].charged
    /\ slot[s].client_ip = slot[u].client_ip
    /\ AdmittedIn(slot[s].client_ip, real, real) = burst
    /\ Len(log) >= 3
    /\ log[Len(log)].client_ip = slot[s].client_ip
    /\ ~log[Len(log)].allowed
    /\ log[Len(log)].at = real

\* C4: a request on /health, /healthz or / is always forwarded to the
\* handler and is uncharged: the step that takes it in, and the step that
\* returns its response, leave every bucket as it was and create none.
C4_ExemptUncharged ==
  [][ /\ \A s \in Slots :
           (slot'[s].pc # "idle" /\ slot'[s].path \in HealthPaths) =>
             /\ slot'[s].calls = 1
             /\ ~slot'[s].charged
      /\ (resp' # resp /\ resp'.path \in HealthPaths) =>
           /\ resp'.calls = 1
           /\ ~resp'.charged
           /\ resp'.status # HTTP_429_TOO_MANY_REQUESTS
           /\ buckets' = buckets
      /\ (\E s \in Slots :
            slot'[s] # slot[s] /\ slot'[s].path \in HealthPaths) =>
           buckets' = buckets ]_vars

\* a health check is forwarded for a client whose bucket holds less than
\* one token
C4_Witness ==
  \E s \in Slots :
    /\ slot[s].path \in HealthPaths
    /\ slot[s].pc = "call_next"
    /\ slot[s].calls = 1
    /\ slot[s].client_ip \in DOMAIN buckets
    /\ buckets[slot[s].client_ip].tokens < TokenUnit

\* C5 as stated: the response to a request on an exempt path reports
\* remaining = burst.
C5_ExemptReportsBurst ==
  (resp.status # 0 /\ resp.path \in HealthPaths) =>
    /\ "X-RateLimit-Remaining" \in DOMAIN resp.headers
    /\ resp.headers["X-RateLimit-Remaining"] = burst

\* C5 as amended: the response to a request on an exempt path is the
\* handler's response as it came back: the limiter adds no X-RateLimit-Limit
\* and no X-RateLimit-Remaining header to it, so no remaining is reported.
C5_ExemptReportsNothing ==
  (resp.status # 0 /\ resp.path \in HealthPaths) =>
    /\ resp.status = HTTP_200_OK
    /\ "X-RateLimit-Remaining" \notin DOMAIN resp.headers
    /\ "X-RateLimit-Limit" \notin DOMAIN resp.headers

\* the response to a health check has been returned
C5_Witness ==
  /\ resp.status = HTTP_200_OK
  /\ resp.path \in HealthPaths
  /\ resp.calls = 1

\* C6: a rejected request never reaches the handler and is answered 429
\* with Retry-After 1, X-RateLimit-Limit = floor(requests_per_second) and
\* X-RateLimit-Remaining = floor(tokens after the failed consume); an
\* admitted one reaches the handler exactly once.  Violated: the header is
\* the literal "0", while after a backward clock step the failed consume
\* leaves a negative token count.
C6_RejectionResponse ==
  /\ \A i \in DOMAIN log : log[i].forwarded = (IF log[i].allowed THEN 1 ELSE 0)
  /\ \A s \in Slots : slot[s].pc = "call_next" => slot[s].calls = 1
  /\ (resp.status # 0 /\ resp.charged) =>
       IF resp.status = HTTP_429_TOO_MANY_REQUESTS
       THEN /\ resp.calls = 0
            /\ resp.headers["Retry-After"] = 1
            /\ resp.headers["X-RateLimit-Limit"] = Floor(requests_per_second)
            /\ resp.headers["X-RateLimit-Remaining"] = Floor(resp.after)
       ELSE resp.calls = 1

\* C7: an admitted request's response reports limit =
\* floor(requests_per_second) and remaining = floor(tokens right after its
\* own consumption).  Violated: the header is read from the bucket after
\* call_next returned, when other requests of the client have used it.
C7_RemainingAfterOwnConsume ==
  (resp.status = HTTP_200_OK /\ resp.charged) =>
    /\ resp.headers["X-RateLimit-Limit"] = Floor(requests_per_second)
    /\ resp.headers["X-RateLimit-Remaining"] = Floor(resp.after)

\* C8: a consume call t real seconds after the previous one on the bucket,
\* which left x tokens, refills by exactly min(max_tokens - x, t * rate).
\* Violated: the elapsed time is taken from the wall clock, which may have
\* been set backward in between.
C8_RefillExact ==
  \A ip \in DOMAIN trace :
    trace[ip].calls >= 2 =>
      trace[ip].gain = Min(buckets[ip].max_tokens - trace[ip].x,
                           trace[ip].t * buckets[ip].rate)

\* ------------------------------------------------------------------------
\* Properties of the score functions
\* ------------------------------------------------------------------------
\* the weights a scoring pass used
UsedWeights == IF weights = <<>> THEN DefaultWeights ELSE weights[1]

WeightsSumToOne ==
  UsedWeights.recency + UsedWeights.social + UsedWeights.quality = WeightUnit

WeightsNonNegative ==
  UsedWeights.recency >= 0 /\ UsedWeights.social >= 0
    /\ UsedWeights.quality >= 0

UrgencyInUnitInterval ==
  0 <= score.urgency /\ score.urgency <= ScoreUnit * WeightUnit

\* C9 as stated: the urgency score lies in [0,1] with the default weights
\* and with any supplied weights that sum to 1.0.
C9_UrgencyBounded ==
  (spc = "scored" /\ WeightsSumToOne) => UrgencyInUnitInterval

\* C9 as amended: the urgency score lies in [0,1] with the default weights
\* and with any supplied weights that are all non-negative and sum to 1.0.
C9_UrgencyBoundedNonNegative ==
  (spc = "scored" /\ WeightsSumToOne /\ WeightsNonNegative)
    => UrgencyInUnitInterval

\* supplied non-negative weights that sum to 1.0 put a post at the upper
\* end of the interval
C9_Witness ==
  /\ spc = "scored"
  /\ weights # <<>>
  /\ WeightsSumToOne
  /\ WeightsNonNegative
  /\ UsedWeights.recency > 0 /\ UsedWeights.social > 0
  /\ score.urgency = ScoreUnit * WeightUnit

\* the collections the pass loaded agree with the follow table
ConsistentSnapshot ==
  /\ user_following = FollowingOf(user)
  /\ post.author_followers = FollowersOf(post.author_id)

\* C10: on a consistent snapshot the social score is 0.2 when the viewer
\* does not follow the author, 0.8 when the viewer follows the author and
\* is not followed back, 1.0 when they follow each other.  Violated: the
\* mutual test looks for the viewer among the author's followers, which
\* holds whenever the viewer follows the author, so 0.8 is never returned.
C10_SocialScoreCases ==
  (spc = "scored" /\ ConsistentSnapshot) =>
    score.social =
      IF ~Follows(user, post.author_id)
      THEN (2 * ScoreUnit) \div 10
      ELSE IF Follows(post.author_id, user)
      THEN ScoreUnit
      ELSE (8 * ScoreUnit) \div 10

\* age of the scored post at the instant of the pass, in seconds
ScoredAge == NowUtc - post.created_at

\* C11: calculate_recency_score returns 1.0 at age 0 s, 0.7 at age 86400 s,
\* 0.3 at age 604800 s and 0.15 at age 1209600 s.
C11_RecencyBoundaryValues ==
  spc = "scored" =>
    /\ ScoredAge = 0 => score.recency = ScoreUnit
    /\ ScoredAge = DAY => score.recency = (7 * ScoreUnit) \div 10
    /\ ScoredAge = WEEK => score.recency = (3 * ScoreUnit) \div 10
    /\ ScoredAge = 2 * WEEK => score.recency = (15 * ScoreUnit) \div 100

\* a post exactly one week old has been scored, in the exponential branch
C11_Witness ==
  /\ spc = "scored"
  /\ ScoredAge = WEEK
  /\ score.recency = (3 * ScoreUnit) \div 10

\* the scenario of C12: the scored post has 150 ASCII characters, its author
\* and the viewer follow each other, and the pass saw both rows
MutualScenario ==
  /\ spc = "scored"
  /\ weights = <<>>
  /\ post.content = [len |-> 150, high |-> 0]
  /\ ConsistentSnapshot
  /\ Follows(user, post.author_id)
  /\ Follows(post.author_id, user)

\* the urgency score of the scored post had it the given age
ScenarioUrgency(age) ==
  calculate_urgency_score([post EXCEPT !.created_at = NowUtc - age], user,
                          user_following, weights, NowUtc).urgency

ScenarioDecreasing ==
  /\ ScenarioUrgency(600) > ScenarioUrgency(2 * DAY)
  /\ ScenarioUrgency(2 * DAY) > ScenarioUrgency(10 * DAY)

\* C12 as stated: in the mutual scenario social and quality are 1.0, the
\* recency scores at ages 10 minutes, 2 days and 10 days are 1.0, 0.62 and
\* 0.159..., and urgency strictly decreases with age.  Violated: the code
\* gives 0.633... at 2 days and 0.222... at 10 days.
C12_ScenarioScores ==
  MutualScenario =>
    /\ score.social = ScoreUnit
    /\ score.quality = ScoreUnit
    /\ ScoredAge = 600 => score.recency = ScoreUnit
    /\ ScoredAge = 2 * DAY => score.recency \div (ScoreUnit \div 100) = 62
    /\ ScoredAge = 10 * DAY => score.recency \div (ScoreUnit \div 1000) = 159
    /\ ScenarioDecreasing

\* C12 as amended: in the mutual scenario social and quality are 1.0, the
\* recency scores at ages 10 minutes, 2 days and 10 days are 1.0, 0.633...
\* and 0.222..., and urgency strictly decreases with age.
C12_ScenarioScoresAsComputed ==
  MutualScenario =>
    /\ score.social = ScoreUnit
    /\ score.quality = ScoreUnit
    /\ ScoredAge = 600 => score.recency = ScoreUnit
    /\ ScoredAge = 2 * DAY => score.recency \div (ScoreUnit \div 1000) = 633
    /\ ScoredAge = 10 * DAY => score.recency \div (ScoreUnit \div 1000) = 222
    /\ ScenarioDecreasing

\* the ten-day-old post of the scenario has been scored
C12_Witness ==
  /\ MutualScenario
  /\ ScoredAge = 10 * DAY
  /\ score.recency \div (ScoreUnit \div 1000) = 222

\* ------------------------------------------------------------------------
\* Properties of the feeds
\* ------------------------------------------------------------------------
\* the number of rows of S that come before r in the order (created_at
\* descending, id descending)
RankIn(S, r) == Cardinality({x \in S : RowBefore(x, r)})

\* positions [o, o + l) of S in that order
TotalOrderPage(S, l, o) ==
  [i \in 1..Max(0, Min(Cardinality(S), o + l) - o) |->
     CHOOSE r \in S : RankIn(S, r) = o + i - 1]

\* the stored posts whose author is u or is followed by u
TimelineRows(u) == {r \in posts : r.author_id = u \/ Follows(u, r.author_id)}

\* the urgency score of a stored post for viewer u, default weights
UrgencyOf(r, u) ==
  calculate_urgency_score(WithAuthor(r), u, FollowingOf(u), <<>>,
                          clock).urgency

\* the stored posts whose score for u reaches ms
KeptRows(u, ms) == {r \in posts : UrgencyOf(r, u) >= ms}

PageRows == {feed.page[i] : i \in DOMAIN feed.page}

\* C13: the global feed, the timeline service and the GET /v1/posts route
\* return the page that the total order (created_at descending, id
\* descending) fixes, so the same stored posts and arguments give the same
\* page.  Violated: the route orders by created_at alone and the database
\* is free to return posts of equal created_at in any order.
C13_FeedsTotallyOrdered ==
  /\ feed.op = "global" =>
       feed.page = TotalOrderPage(posts, feed.limit, feed.offset)
  /\ feed.op \in {"timeline", "timeline_route"} =>
       feed.page
         = TotalOrderPage(TimelineRows(feed.user), feed.limit, feed.offset)

\* C14: get_global_feed returns as page the positions [offset, offset+limit)
\* of all stored posts in the order (created_at descending, id descending)
\* and as total the number of all stored posts.
C14_GlobalFeedPage ==
  feed.op = "global" =>
    /\ feed.page = TotalOrderPage(posts, feed.limit, feed.offset)
    /\ feed.total = Cardinality(posts)

\* a global feed page that starts past the first post, ends before the
\* last and holds two posts created at the same instant
C14_Witness ==
  /\ feed.op = "global"
  /\ feed.offset = 1
  /\ Len(feed.page) = 2
  /\ feed.total > Len(feed.page)
  /\ feed.page[1].created_at = feed.page[2].created_at

\* C15: the timeline of viewer u, from the service or the route, has total
\* equal to the number of stored posts whose author is u or is followed by
\* u now, every post on the page has such an author, and a page that is
\* large enough holds all of them.
C15_TimelineAuthors ==
  feed.op \in {"timeline", "timeline_route"} =>
    /\ feed.total = Cardinality(TimelineRows(feed.user))
    /\ PageRows \subseteq TimelineRows(feed.user)
    /\ (feed.offset = 0 /\ feed.limit >= feed.total)
         => PageRows = TimelineRows(feed.user)

\* a timeline that shows an own post and a followed user's post ...
C15_WitnessShown ==
  /\ feed.op \in {"timeline", "timeline_route"}
  /\ \E i \in DOMAIN feed.page : feed.page[i].author_id = feed.user
  /\ \E i \in DOMAIN feed.page : feed.page[i].author_id # feed.user

\* ... and one that leaves out the post of a user the viewer does not follow
C15_Witness ==
  /\ feed.op \in {"timeline", "timeline_route"}
  /\ feed.total >= 1
  /\ feed.total < Cardinality(posts)
  /\ \E i \in DOMAIN feed.page : feed.page[i].author_id = feed.user

\* C16: the for-you feed is sorted by score descending, entries of equal
\* score by created_at descending and, created_at being equal too, by id
\* descending.  Violated: the sort key is the score alone and the candidate
\* query orders by created_at alone, so posts equal in both come in the
\* order the database returned them.
C16_ForYouOrder ==
  feed.op = "for_you" =>
    \A i \in DOMAIN feed.page, j \in DOMAIN feed.page :
      i < j =>
        \/ feed.scores[i] > feed.scores[j]
        \/ /\ feed.scores[i] = feed.scores[j]
           /\ RowBefore(feed.page[i], feed.page[j])

\* C17: the for-you feed keeps exactly the candidates whose score reaches
\* min_score: total is their number, counted before the page is cut, and
\* no returned entry has a lower score.
C17_MinScoreFilter ==
  feed.op = "for_you" =>
    /\ feed.total = Cardinality(KeptRows(feed.user, feed.min_score))
    /\ PageRows \subseteq KeptRows(feed.user, feed.min_score)
    /\ \A i \in DOMAIN feed.scores : feed.scores[i] >= feed.min_score
    /\ (feed.offset = 0 /\ feed.limit >= feed.total)
         => PageRows = KeptRows(feed.user, feed.min_score)

\* a for-you feed with a positive min_score that kept one candidate and
\* discarded another
C17_Witness ==
  /\ feed.op = "for_you"
  /\ feed.min_score > 0
  /\ feed.total >= 1
  /\ feed.total < Cardinality(posts)
  /\ Len(feed.page) >= 1

\* the total a feed operation is to return: the size of its candidate set,
\* whatever limit and offset are
CandidateCount ==
  IF feed.op = "global" THEN Cardinality(posts)
  ELSE IF feed.op = "for_you"
  THEN Cardinality(KeptRows(feed.user, feed.min_score))
  ELSE Cardinality(TimelineRows(feed.user))

\* C18: every feed operation returns an empty page when offset >= total,
\* and a total that depends on the candidate set and the viewer alone, the
\* same for every limit and offset.
C18_Pagination ==
  feed.op # "" =>
    /\ feed.offset >= feed.total => feed.page = <<>>
    /\ feed.total = CandidateCount

\* a feed read at an offset past its last candidate, with candidates there
C18_Witness ==
  /\ feed.op # ""
  /\ feed.total >= 1
  /\ feed.offset >= feed.total
  /\ feed.limit >= 1
  /\ feed.page = <<>>

\* C19: the for-you feed over no candidates returns total 0 and an empty
\* page, and can always be read; with limit 0 it returns an empty page and
\* as total the number of candidates that pass the min_score filter.
C19_ForYouEdgeCases ==
  /\ (feed = NoFeed /\ posts = {}) => ENABLED ForYouFeed
  /\ feed.op = "for_you" =>
       /\ posts = {} => (feed.total = 0 /\ feed.page = <<>>)
       /\ feed.limit = 0 =>
            /\ feed.page = <<>>
            /\ feed.total = Cardinality(KeptRows(feed.user, feed.min_score))

\* a for-you feed read with limit 0 over candidates that pass the filter
C19_Witness ==
  /\ feed.op = "for_you"
  /\ feed.limit = 0
  /\ feed.offset = 0
  /\ feed.total >= 2
  /\ feed.page = <<>>

\* ------------------------------------------------------------------------
\* Properties of the follow graph
\* ------------------------------------------------------------------------
\* the step answered a request with a status other than 204
Rejected == fres' # fres /\ fres'.status # HTTP_204_NO_CONTENT

\* the step answered a request on its entry, before any service call
AnsweredOnEntry == fres' # fres /\ freq' = freq

\* C20: a rejected follow or unfollow request leaves the follow graph
\* unchanged; a request to follow oneself is answered 400, to follow an id
\* no user has 404, to follow a user already followed 409, to unfollow an
\* id no user has or a user not followed 404; no user ever follows
\* themselves and no (follower, followed) pair is recorded twice.
C20_StepRule ==
  /\ Rejected => followers_tbl' = followers_tbl
  /\ (AnsweredOnEntry /\ fres'.op = "follow") =>
       fres'.status =
         IF fres'.user = fres'.target THEN HTTP_400_BAD_REQUEST
         ELSE IF fres'.target \notin Users THEN HTTP_404_NOT_FOUND
         ELSE HTTP_409_CONFLICT
  /\ (AnsweredOnEntry /\ fres'.op = "follow"
        /\ fres'.status = HTTP_409_CONFLICT) =>
       Follows(fres'.user, fres'.target)
  /\ (AnsweredOnEntry /\ fres'.op = "unfollow") =>
       /\ fres'.status = HTTP_404_NOT_FOUND
       /\ fres'.target \notin Users \/ ~Follows(fres'.user, fres'.target)
  /\ \A u \in Users : ~Follows(u, u)'
  /\ \A r \in BagToSet(followers_tbl') : CopiesIn(r, followers_tbl') = 1

C20_FollowRejections == [][C20_StepRule]_vars

\* a second request to follow the same user has been answered 409, or lost
\* the race for the row, and the pair is recorded once
C20_Witness ==
  /\ fres.op = "follow"
  /\ fres.status \in {HTTP_409_CONFLICT, HTTP_500_INTERNAL_SERVER_ERROR}
  /\ CopiesIn(<<fres.user, fres.target>>, followers_tbl) = 1

\* the step answered a request 204 after its service call
Answered204 ==
  /\ \E s \in Sessions : freq[s].pc # "idle" /\ freq'[s].pc = "idle"
  /\ fres'.status = HTTP_204_NO_CONTENT

\* the step took a request into the service call
EnteredService(op, u, v) ==
  \E s \in Sessions :
    /\ freq[s].pc = "idle"
    /\ freq'[s] = [pc |-> "service", op |-> op, user |-> u, target |-> v]

\* C21: a follow of v by u that is answered 204 found v not followed by u
\* and leaves v followed by u once, and the step that records the pair
\* raises v's follower_count and u's following_count by exactly 1 and
\* changes no other count; an unfollow answered 204 found the pair and
\* leaves it removed, and the step that removes it lowers the same two
\* counts by exactly 1, which restores them; no other step changes a count.
C21_StepRule ==
  /\ \A u \in Users, v \in Users :
       /\ EnteredService("follow", u, v) => ~Follows(u, v)
       /\ EnteredService("unfollow", u, v) => Follows(u, v)
  /\ Answered204 =>
       LET u == fres'.user
           v == fres'.target
       IN IF fres'.op = "follow"
          THEN /\ CopiesIn(<<u, v>>, followers_tbl') = 1
               /\ followers_tbl' # followers_tbl =>
                    \A w \in Users :
                      /\ follower_count(w)'
                           = follower_count(w) + (IF w = v THEN 1 ELSE 0)
                      /\ following_count(w)'
                           = following_count(w) + (IF w = u THEN 1 ELSE 0)
          ELSE /\ CopiesIn(<<u, v>>, followers_tbl') = 0
               /\ followers_tbl' # followers_tbl =>
                    \A w \in Users :
                      /\ follower_count(w)'
                           = follower_count(w) - (IF w = v THEN 1 ELSE 0)
                      /\ following_count(w)'
                           = following_count(w) - (IF w = u THEN 1 ELSE 0)
  /\ ~Answered204 =>
       \A w \in Users :
         /\ follower_count(w)' = follower_count(w)
         /\ following_count(w)' = following_count(w)

Stored(id) == \E r \in posts : r.id = id

\* C22: only a post's author can delete it: a delete request by another
\* user is answered 403 and leaves the post stored, a delete of a post that
\* is not stored is answered 404, the author's delete is answered 204 and
\* removes the post; a post leaves the table by its author's delete alone,
\* a deleted post never comes back, and a GET is answered 200 for a stored
\* post and 404 otherwise, so 404 ever after the author's delete.
C22_StepRule ==
  /\ (pres' # pres /\ pres'.op = "delete") =>
       /\ pres'.status =
            IF ~Stored(pres'.id) THEN HTTP_404_NOT_FOUND
            ELSE IF \E r \in posts :
                      r.id = pres'.id /\ r.author_id = pres'.user
            THEN HTTP_204_NO_CONTENT
            ELSE HTTP_403_FORBIDDEN
       /\ pres'.status # HTTP_204_NO_CONTENT => posts' = posts
       /\ pres'.status = HTTP_204_NO_CONTENT =>
            ~(\E r \in posts' : r.id = pres'.id)
  /\ \A r \in posts \ posts' :
       pres' = PostResponse("delete", r.author_id, r.id, HTTP_204_NO_CONTENT)
  /\ \A id \in Range(created) : ~Stored(id) => ~Stored(id)'
  /\ (pres' # pres /\ pres'.op = "get") =>
       pres'.status = (IF Stored(pres'.id) THEN HTTP_200_OK
                       ELSE HTTP_404_NOT_FOUND)

C22_AuthorOnlyDelete == [][C22_StepRule]_vars

\* a user other than the author asked to delete a post and got 403 while
\* the post is stored, after the author of another post deleted that one
C22_Witness ==
  /\ pres.op = "delete"
  /\ pres.status = HTTP_403_FORBIDDEN
  /\ \E r \in posts : r.id = pres.id /\ r.author_id # pres.user
  /\ \E id \in Range(created) : ~Stored(id)

\* place of id in the order of creation
CreatedAs(id) == CHOOSE i \in DOMAIN created : created[i] = id

\* C23: the posts of one user are listed newest first, from the service and
\* from the route: of two posts on the page the one created later comes
\* first, also when both got the same created_at; total is the number of
\* that user's posts.  Violated: the service breaks a tie in created_at by
\* content descending, the route not at all.
C23_UserPostsNewestFirst ==
  feed.op \in {"user_posts", "user_posts_route"} =>
    /\ feed.total = Cardinality({r \in posts : r.author_id = feed.user})
    /\ \A i \in DOMAIN feed.page, j \in DOMAIN feed.page :
         i < j => CreatedAs(feed.page[i].id) > CreatedAs(feed.page[j].id)

\* ------------------------------------------------------------------------
\* Properties of the score functions over every content and age
\* ------------------------------------------------------------------------
\* C24: a post whose content is shorter than 50 characters and has no
\* character above code point 127 gets a quality score in [0.5, 0.7], so
\* never more than a post of 50 to 99 characters gets.  Violated: the
\* branch is 0.5 + length / 100, which reaches 0.99 at 49 characters.
C24_ShortContentPenalized ==
  (spc = "scored" /\ post.content.len < 50 /\ post.content.high = 0) =>
    /\ (5 * ScoreUnit) \div 10 <= score.quality
    /\ score.quality <= (7 * ScoreUnit) \div 10

\* base(L) of C27, in 1/ScoreUnit
QualityBase(L) ==
  IF 100 <= L /\ L <= 200 THEN ScoreUnit
  ELSE IF L < 50 THEN ScoreUnit \div 2 + L * (ScoreUnit \div 100)
  ELSE IF L < 100
  THEN (7 * ScoreUnit) \div 10 + ((L - 50) * ScoreUnit) \div 167
  ELSE Min(ScoreUnit,
           (9 * ScoreUnit) \div 10 + ((L - 200) * ScoreUnit) \div 800)

Older(d) == [post EXCEPT !.created_at = @ - d]

\* C29: the recency score lies in [0.1, 1.0] and does not increase with the
\* age of the post, across the branch boundaries at one hour, one day and
\* one week too; so with non-negative weights a post older than the scored
\* one and otherwise equal never gets the higher urgency score.
C29_RecencyNonIncreasing ==
  spc = "scored" =>
    /\ ScoreUnit \div 10 <= score.recency
    /\ score.recency <= ScoreUnit
    /\ \A d \in {1, 600, HOUR, DAY, WEEK} :
         /\ calculate_recency_score(Older(d), NowUtc) <= score.recency
         /\ WeightsNonNegative =>
              calculate_urgency_score(Older(d), user, user_following,
                                      weights, NowUtc).urgency
                <= score.urgency

\* a post in the last second of its first week has been scored above 0.3
\* with supplied weights; one second older it scores 0.3
C29_Witness ==
  /\ spc = "scored"
  /\ weights # <<>>
  /\ WeightsNonNegative
  /\ ScoredAge = WEEK - 1
  /\ score.recency > (3 * ScoreUnit) \div 10
  /\ calculate_recency_score(Older(1), NowUtc) = (3 * ScoreUnit) \div 10

\* ------------------------------------------------------------------------
\* Properties of TokenBucket.consume and of the retry hint
\* ------------------------------------------------------------------------
\* C25: consume measures elapsed time on a monotonic clock: last_update of
\* a bucket never decreases, so elapsed is never negative, and the refill
\* never lowers tokens, also when the wall clock is set backward between
\* two calls.  Violated: consume reads time.time(), the wall clock.
C25_StepRule ==
  /\ \A ip \in DOMAIN buckets :
       buckets'[ip].last_update >= buckets[ip].last_update
  /\ \A ip \in DOMAIN trace' : trace'[ip].gain >= 0

C25_MonotonicClock == [][C25_StepRule]_vars

\* the bucket a consume call of client ip finds
BucketBefore(ip) ==
  IF ip \in DOMAIN buckets
  THEN buckets[ip]
  ELSE [rate |-> requests_per_second, max_tokens |-> burst * TokenUnit,
        tokens |-> burst * TokenUnit, last_update |-> now]

\* C26: a consume(1) call finds tokens and last_update, reads the clock and
\* computes refilled = min(max_tokens, tokens + elapsed * rate); it returns
\* True exactly when refilled >= 1 and then leaves refilled - 1 tokens; a
\* rejected call leaves refilled tokens, subtracting nothing; either way
\* last_update is the instant read.
C26_StepRule ==
  Len(log') > Len(log) =>
    LET e == log'[Len(log')]
        b == BucketBefore(e.client_ip)
        elapsed == now - b.last_update
        refilled ==
          IF b.tokens + elapsed * b.rate <= b.max_tokens
          THEN b.tokens + elapsed * b.rate
          ELSE b.max_tokens
    IN /\ e.allowed <=> refilled >= TokenUnit
       /\ buckets'[e.client_ip].tokens
            = (IF e.allowed THEN refilled - TokenUnit ELSE refilled)
       /\ buckets'[e.client_ip].last_update = now

C26_ConsumeOutcome == [][C26_StepRule]_vars

\* the call decided last was rejected after a refill that added tokens,
\* and the bucket holds the refilled amount, stamped with the instant read
C26_Witness ==
  /\ log # <<>>
  /\ ~log[Len(log)].allowed
  /\ trace[log[Len(log)].client_ip].gain > 0
  /\ buckets[log[Len(log)].client_ip].tokens
       = trace[log[Len(log)].client_ip].x
           + trace[log[Len(log)].client_ip].gain
  /\ buckets[log[Len(log)].client_ip].last_update = now

\* C28: whatever requests_per_second and burst >= 1 are, a client that got
\* a 429 and sends its next charged request at least 1 second later, the
\* Retry-After it was given, is admitted.  Violated: with less than one
\* token a second the bucket holds less than one token a second after the
\* rejection.
C28_RetryAfterHonoured ==
  \A i \in DOMAIN log, j \in DOMAIN log :
    ( /\ i < j
      /\ log[i].client_ip = log[j].client_ip
      /\ \A k \in (i + 1)..(j - 1) : log[k].client_ip # log[i].client_ip
      /\ ~log[i].allowed
      /\ log[j].at >= log[i].at + 1 )
    => log[j].allowed

\* ------------------------------------------------------------------------
\* Properties of the for-you feed's pagination arguments
\* ------------------------------------------------------------------------
\* C30: for a negative limit or a negative offset get_for_you_feed returns
\* the page it returns with that value clamped to 0: the entries at the
\* places max(offset, 0) + 1 .. max(offset, 0) + max(limit, 0) of the
\* ranking, so never more than max(limit, 0) entries, none for limit < 0,
\* and from the top-ranked entry on for offset < 0.  Violated: the page is
\* the Python slice [offset : offset + limit], in which a negative index
\* counts from the end of the list.
C30_ClampedPagination ==
  feed.op = "for_you" =>
    LET l == Max(feed.limit, 0)
        o == Max(feed.offset, 0)
        kept == KeptRows(feed.user, feed.min_score)
    IN /\ Len(feed.page) <= l
       /\ Len(feed.page) = Max(0, Min(Cardinality(kept), o + l) - o)
       /\ \A i \in DOMAIN feed.page :
            /\ Cardinality({r \in kept :
                              UrgencyOf(r, feed.user) > feed.scores[i]})
                 <= o + i - 1
            /\ Cardinality({r \in kept :
                              UrgencyOf(r, feed.user) >= feed.scores[i]})
                 >= o + i

====
